---------------------------- MODULE Spec2Model ----------------------------
(***************************************************************************)
(* ClusterTreeKNN (src/src/model/cluster_tree_knn.py): construction of the *)
(* cluster tree (fit) and the hierarchical prediction (predict).           *)
(*                                                                         *)
(* Numbers.  Samples are points with integer coordinates.  Every distance  *)
(* of the code is a Euclidean norm that is only compared, minimised,       *)
(* maximised or sorted, so the model keeps the SQUARED distance (an        *)
(* integer; the square root is monotone).  The radius threshold is a float *)
(* that moves in steps of 0.5: the model counts it in half units, and      *)
(* dist <= eps becomes 4 * dist^2 <= eps2^2.                               *)
(*                                                                         *)
(* Objects.  Python lists hold references: the model keeps every Hyper and *)
(* Upper cluster object in the sequence nodes, and Hlevel, Plevel and the  *)
(* children of a node are sequences of indexes into it.  The children of a *)
(* hyper node are indexes into Blevel.  A bottom cluster's data and labels *)
(* are rows of X and y: the model keeps the row numbers.  Indexes are      *)
(* 1-based where numpy's are 0-based.                                      *)
(***************************************************************************)
EXTENDS Integers, Sequences, FiniteSets, TLC

\* ------------------------------------------------------------------ bounds
\* At most MaxRows training rows in the inputs of Init.
MaxRows == 3
\* At most MaxBatch rows in a batch given to predict.
MaxBatch == 2

\* The iteration budget set by the constructor.
_max_iter == 100

\* Coordinates of the training rows and of the supplied centroids.
Grid == {<<0, 0>>, <<1, 0>>, <<0, 2>>}
\* Class labels (the labelling tool offers 0, 1, 2; two are enough here).
Labels == {0, 1}
\* Values of the externally supplied cluster assignment.
ClusterIds == {0, 1}
\* initial_hyperlevel_threshold, in half units (2 is 1.0).
Thresholds == {2}
\* sigma_nearest_nodes and n_neighbors offered to the constructor.
Sigmas == {2}
Neighbors == {3}
\* Points offered to predict.
SamplePoints == {<<0, 0>>, <<0, 2>>}

VARIABLES
    X,                    \* training rows
    y,                    \* their labels
    clusters_masks,       \* cluster id of every row
    centroids,            \* one centroid per cluster, by position
    initial_hyperlevel_threshold,
    sigma_nearest_nodes,
    n_neighbors,
    remaining_clusters_labels,
    Blevel,               \* bottom clusters: [id, rows, centroid]
    nodes,                \* every hyper and upper cluster object created
    Hlevel,               \* indexes into nodes
    Plevel,               \* indexes into nodes
    gamma_d,              \* the local of fit: [bound, v]
    most_dissimilars,     \* the local of fit, as last computed
    iter,
    hyperlevel_threshold,
    dbscan_calls,         \* <<iteration, eps>> of every DBSCAN constructed
    branches,             \* the branch each extraction iteration took
    pc,
    prediction            \* the predict call: [sample, result, descents]

vars == <<X, y, clusters_masks, centroids, initial_hyperlevel_threshold,
          sigma_nearest_nodes, n_neighbors, remaining_clusters_labels,
          Blevel, nodes, Hlevel, Plevel, gamma_d, most_dissimilars, iter,
          hyperlevel_threshold, dbscan_calls, branches, pc, prediction>>

inputs == <<X, y, clusters_masks, centroids, initial_hyperlevel_threshold,
            sigma_nearest_nodes, n_neighbors>>

\* ----------------------------------------------------------- numpy helpers
Range(s) == {s[i] : i \in DOMAIN s}

Idx(n) == [i \in 1..n |-> i]

Min(S) == CHOOSE m \in S : \A n \in S : m <= n

Max(S) == CHOOSE m \in S : \A n \in S : m >= n

RECURSIVE SortedSeq(_)
\* np.unique: the distinct values in ascending order.
SortedSeq(S) == IF S = {} THEN <<>> ELSE <<Min(S)>> \o SortedSeq(S \ {Min(S)})

\* ndarray.argmax / argmin: the first index of the extreme value.
ArgMax(s) == Min({i \in DOMAIN s : s[i] = Max(Range(s))})

RECURSIVE SumSeq(_)
SumSeq(s) == IF s = <<>> THEN 0 ELSE Head(s) + SumSeq(Tail(s))

RECURSIVE Flatten(_)
Flatten(ss) == IF ss = <<>> THEN <<>> ELSE Head(ss) \o Flatten(Tail(ss))

\* np.linalg.norm(p - q) of two rows, squared.
SqDist(p, q) == SumSeq([k \in DOMAIN p |-> (p[k] - q[k]) * (p[k] - q[k])])

NoPrediction ==
    [sample |-> [rank |-> 1, v |-> <<>>], result |-> [kind |-> "none", v |-> <<>>],
     descents |-> <<>>]

\* ------------------------------------------------------------ construction
\* Lines 94-106: the state after __init__ and the first statements of fit.
SeedBlevel(masks, cents) ==
    LET lbls == SortedSeq(Range(masks))
    IN  [i \in DOMAIN lbls |->
            [id |-> i - 1,
             rows |-> SelectSeq(Idx(Len(masks)), LAMBDA r : masks[r] = lbls[i]),
             centroid |-> cents[i]]]

Start ==
    /\ remaining_clusters_labels = SortedSeq(Range(clusters_masks))
    /\ Blevel = SeedBlevel(clusters_masks, centroids)
    /\ nodes = <<>>
    /\ Hlevel = <<>>
    /\ Plevel = <<>>
    /\ gamma_d = [bound |-> FALSE, v |-> <<>>]
    /\ most_dissimilars = <<>>
    /\ iter = 0
    /\ hyperlevel_threshold = 0
    /\ dbscan_calls = <<>>
    /\ branches = <<>>
    /\ pc = "extract"
    /\ prediction = NoPrediction

\* Any clustering of up to MaxRows rows into non-empty clusters, with one
\* supplied centroid per cluster.
Init ==
    /\ \E n \in 1..MaxRows :
        /\ X \in [1..n -> Grid]
        /\ y \in [1..n -> Labels]
        /\ clusters_masks \in [1..n -> ClusterIds]
    /\ centroids \in [1..Cardinality(Range(clusters_masks)) -> Grid]
    /\ initial_hyperlevel_threshold \in Thresholds
    /\ sigma_nearest_nodes \in Sigmas
    /\ n_neighbors \in Neighbors
    /\ Start

\* MaxRows + 1 rows, each a cluster of its own (its centroid is the row).
InitWide ==
    /\ X \in [1..(MaxRows + 1) -> Grid]
    /\ y \in [1..(MaxRows + 1) -> Labels]
    /\ clusters_masks = [r \in 1..(MaxRows + 1) |-> r - 1]
    /\ centroids = X
    /\ initial_hyperlevel_threshold \in Thresholds
    /\ sigma_nearest_nodes \in Sigmas
    /\ n_neighbors \in Neighbors
    /\ Start

\* Lines 119-125: the rows of the clusters still remaining, in row order.
RemainingRows(rem) ==
    SelectSeq(Idx(Len(X)), LAMBDA r : clusters_masks[r] \in Range(rem))

\* Lines 127-129: one candidate per position of the remaining list, taken
\* from Blevel[i] and centroids[i] of that POSITION.
MostDissimilars(rem) ==
    [i \in DOMAIN rem |->
        LET rows == Blevel[i].rows
            far == ArgMax([j \in DOMAIN rows |-> SqDist(X[rows[j]], centroids[i])])
        IN  X[rows[far]]]

\* Lines 134-135: the first remaining row equal to the candidate, or the
\* first row when there is none.
MostDissimilarsIndexes(md, _rows) ==
    [k \in DOMAIN md |->
        LET hits == {j \in DOMAIN _rows : X[_rows[j]] = md[k]}
        IN  IF hits # {} THEN Min(hits) ELSE 1]

\* Line 137.
Dissimilarity(_rows, i, j) == SqDist(X[_rows[i]], X[_rows[j]])

\* Line 141.
GammaD(_rows, mdi) ==
    [k \in DOMAIN mdi |->
        Min({Dissimilarity(_rows, mdi[k], j) :
                j \in {j \in DOMAIN _rows : y[_rows[j]] # y[_rows[mdi[k]]]}})]

\* Lines 142-143: the rows of psi_d of candidate k.
PsiD(_rows, i, g) ==
    SelectSeq(_rows, LAMBDA r : y[r] = y[_rows[i]] /\ SqDist(X[_rows[i]], X[r]) < g)

\* The test made per cluster instead of over the whole remaining pool.
MultiClassPerCluster(_rows) ==
    \E c \in {clusters_masks[r] : r \in Range(_rows)} :
        Cardinality({y[r] : r \in {q \in Range(_rows) : clusters_masks[q] = c}}) > 1

\* Line 139: more than one class label among the remaining rows.
MultiClass(_rows) == Cardinality({y[r] : r \in Range(_rows)}) > 1

\* The label of the first remaining row instead of the selected row's.
HyperLabelOfFirstRow(_rows, i) == y[_rows[1]]

\* Line 158: the label given to the hyper node of the multi-class branch.
HyperLabel(_rows, i) == y[_rows[i]]

\* Line 176: list.remove, the first occurrence.
ListRemove(s, v) ==
    LET at == Min({i \in DOMAIN s : s[i] = v})
    IN  SubSeq(s, 1, at - 1) \o SubSeq(s, at + 1, Len(s))

\* Line 195: list.pop, the last element.
ListPop(s) == SubSeq(s, 1, Len(s) - 1)

HyperLevelCluster(id, data, label, g, children) ==
    [kind |-> "hyper", id |-> id, data |-> [rank |-> 1, v |-> data],
     label |-> label, gamma_d |-> g, children |-> children]

BottomLevelCluster(id, rows) == [id |-> id, rows |-> rows, centroid |-> <<>>]

\* Lines 201-214 once an extraction iteration has run: the guard, and when the
\* loop ends the hand-over to condensation (or the return, with one node).
AfterExtraction(rem, H) ==
    /\ iter' = IF rem = <<>> /\ iter + 1 < _max_iter THEN 0 ELSE iter + 1
    /\ IF ~(iter + 1 < _max_iter)
       THEN /\ pc' = "assert_failed"
            /\ UNCHANGED <<Plevel, hyperlevel_threshold>>
       ELSE IF Len(rem) > 0
       THEN /\ pc' = "extract"
            /\ UNCHANGED <<Plevel, hyperlevel_threshold>>
       ELSE /\ Plevel' = H
            /\ hyperlevel_threshold' = initial_hyperlevel_threshold
            /\ pc' = IF Len(H) # 1 THEN "condense" ELSE "fitted"

\* Lines 110-202: one iteration of the extraction loop.  (\E v \in {e} binds
\* a local of the code to its value.)
Extract ==
    /\ pc = "extract"
    /\ \E rem \in {remaining_clusters_labels} :
       \E _rows \in {RemainingRows(rem)} :
       \E md \in {MostDissimilars(rem)} :
       \E mdi \in {MostDissimilarsIndexes(md, _rows)} :
       /\ most_dissimilars' = md
       /\ IF MultiClass(_rows)
          THEN \E g \in {GammaD(_rows, mdi)} :
               \E psi_d \in {[k \in DOMAIN mdi |-> PsiD(_rows, mdi[k], g[k])]} :
               \E new \in {ArgMax([k \in DOMAIN mdi |-> Len(psi_d[k])])} :
               \E cluster_to_be_removed \in {clusters_masks[_rows[mdi[new]]]} :
                   /\ gamma_d' = [bound |-> TRUE, v |-> g]
                   /\ nodes' = Append(nodes,
                         HyperLevelCluster(Len(Hlevel), md[new],
                             HyperLabel(_rows, mdi[new]), g[new], <<Len(Blevel) + 1>>))
                   /\ Hlevel' = Append(Hlevel, Len(nodes) + 1)
                   /\ Blevel' = Append(Blevel, BottomLevelCluster(Len(Blevel), psi_d[new]))
                   /\ remaining_clusters_labels' = ListRemove(rem, cluster_to_be_removed)
                   /\ branches' = Append(branches, "multi")
                   /\ AfterExtraction(remaining_clusters_labels', Hlevel')
          ELSE IF ~gamma_d.bound
          THEN \* line 185 reads a local that no iteration has assigned
               /\ pc' = "unbound_local"
               /\ branches' = Append(branches, "single")
               /\ UNCHANGED <<remaining_clusters_labels, Blevel, nodes, Hlevel,
                              Plevel, gamma_d, iter, hyperlevel_threshold>>
          ELSE /\ nodes' = Append(nodes,
                     HyperLevelCluster(Len(Hlevel), md[1], y[_rows[1]],
                         gamma_d.v[1], <<Len(Blevel) + 1>>))
               /\ Hlevel' = Append(Hlevel, Len(nodes) + 1)
               /\ Blevel' = Append(Blevel, BottomLevelCluster(Len(Blevel), _rows))
               /\ remaining_clusters_labels' = ListPop(rem)
               /\ branches' = Append(branches, "single")
               /\ UNCHANGED gamma_d
               /\ AfterExtraction(remaining_clusters_labels', Hlevel')
    /\ UNCHANGED <<inputs, dbscan_calls, prediction>>

\* ------------------------------------------------------------ condensation
UpperLevelCluster(id, data, children) ==
    [kind |-> "upper", id |-> id, data |-> data, children |-> children]

\* Line 217: the representative of every node of the level.
HyperlevelData(level) == [i \in DOMAIN level |-> nodes[level[i]].data.v]

\* Lines 229-232.
MinSamples(n) == IF (2 * n) \div 10 < 3 THEN 3 ELSE (2 * n) \div 10

\* sklearn's DBSCAN: the eps-neighbourhood of point i holds the points at
\* distance <= eps, the point itself among them.
EpsNeighbours(D, i, eps2) ==
    {j \in DOMAIN D : 4 * SqDist(D[i], D[j]) <= eps2 * eps2}

\* DBSCAN.core_sample_indices_, as a set.
CoreSamples(D, eps2, min_samples) ==
    {i \in DOMAIN D : Cardinality(EpsNeighbours(D, i, eps2)) >= min_samples}

RECURSIVE Component(_, _, _, _)
\* The core samples density-connected to those of S.
Component(S, cores, D, eps2) ==
    IF \A i \in S : (EpsNeighbours(D, i, eps2) \cap cores) \subseteq S
    THEN S
    ELSE Component(S \cup UNION {EpsNeighbours(D, i, eps2) \cap cores : i \in S},
                   cores, D, eps2)

RECURSIVE CountClusters(_, _, _)
CountClusters(cores, D, eps2) ==
    IF cores = {} THEN 0
    ELSE 1 + CountClusters(cores \ Component({Min(cores)}, cores, D, eps2), D, eps2)

\* np.unique(DBSCAN.labels_).shape[0]: one label per cluster, and -1 when
\* some point is in no core sample's neighbourhood.
CountLabels(D, eps2, min_samples) ==
    CountClusters(CoreSamples(D, eps2, min_samples), D, eps2)
    + (IF \E i \in DOMAIN D :
             EpsNeighbours(D, i, eps2) \cap CoreSamples(D, eps2, min_samples) = {}
       THEN 1 ELSE 0)

\* Line 234: the radius handed to DBSCAN.
DbscanEps == initial_hyperlevel_threshold

\* Lines 241-247: one upper node per core sample, every node of the level
\* among the children of each.
CoreUpperNodes(core_indeces, D, level) ==
    [i \in DOMAIN core_indeces |->
        UpperLevelCluster(i - 1, [rank |-> 1, v |-> D[core_indeces[i]]], level)]

\* Lines 221-226 and 249-254: the whole level under one node.
CollapsedNode(D, level) ==
    <<UpperLevelCluster(Len(level), [rank |-> 2, v |-> D], level)>>

\* Lines 216-264: one iteration of the condensation loop.
Condense ==
    /\ pc = "condense"
    /\ \E D \in {HyperlevelData(Plevel)} :
       \E n \in {Len(Plevel)} :
       \E new_P_level \in
            {IF n = 2 THEN CollapsedNode(D, Plevel)
             ELSE IF /\ CountLabels(D, DbscanEps, MinSamples(n)) > 1
                     /\ Cardinality(CoreSamples(D, DbscanEps, MinSamples(n))) < n
                  THEN CoreUpperNodes(
                          SortedSeq(CoreSamples(D, DbscanEps, MinSamples(n))), D, Plevel)
                  ELSE CollapsedNode(D, Plevel)} :
        /\ dbscan_calls' = IF n = 2 THEN dbscan_calls
                           ELSE Append(dbscan_calls, <<iter, DbscanEps>>)
        /\ nodes' = nodes \o new_P_level
        /\ Plevel' = [i \in DOMAIN new_P_level |-> Len(nodes) + i]
        /\ hyperlevel_threshold' = hyperlevel_threshold + 1
        /\ iter' = iter + 1
        /\ pc' = IF ~(iter + 1 < _max_iter) THEN "assert_failed"
                 ELSE IF Len(new_P_level) # 1 THEN "condense" ELSE "fitted"
    /\ UNCHANGED <<inputs, remaining_clusters_labels, Blevel, Hlevel, gamma_d,
                   most_dissimilars, branches, prediction>>

\* -------------------------------------------------------------- prediction
\* An ndarray: rank 0 is a scalar, rank 1 a row, rank 2 a matrix of rows.
Rows(a) == IF a.rank = 2 THEN a.v ELSE <<a.v>>

\* np.linalg.norm(a - b), squared, with numpy's broadcasting: a scalar b is
\* subtracted from every entry, a single row b from every row of a.
NormSq(a, b) ==
    IF b.rank = 0
    THEN SumSeq([i \in DOMAIN Flatten(Rows(a)) |->
                    (Flatten(Rows(a))[i] - b.v) * (Flatten(Rows(a))[i] - b.v)])
    ELSE SumSeq([i \in DOMAIN Rows(a) |->
                    SumSeq([j \in DOMAIN Rows(b) |-> SqDist(Rows(a)[i], Rows(b)[j])])])

RECURSIVE ArgSortFrom(_, _)
ArgSortFrom(d, left) ==
    IF left = {} THEN <<>>
    ELSE LET i == CHOOSE i \in left :
                    \A j \in left : d[i] < d[j] \/ (d[i] = d[j] /\ i <= j)
         IN  <<i>> \o ArgSortFrom(d, left \ {i})

\* ndarray.argsort of a short array: ascending, equal values in index order.
ArgSort(d) == ArgSortFrom(d, DOMAIN d)

Take(s, k) == SubSeq(s, 1, IF k < Len(s) THEN k ELSE Len(s))

\* Lines 296-299 and 313-316: the sigma nearest of the candidates.
Nearest(cands, sample) ==
    LET order == Take(ArgSort([i \in DOMAIN cands |-> NormSq(nodes[cands[i]].data, sample)]),
                      sigma_nearest_nodes)
    IN  [i \in DOMAIN order |-> cands[order[i]]]

\* Line 312.
Subnodes(Lx) == Flatten([i \in DOMAIN Lx |-> nodes[Lx[i]].children])

RECURSIVE Descend(_, _)
\* Lines 305-323.
Descend(Lx, sample) ==
    IF \E i \in DOMAIN Lx : nodes[Lx[i]].kind = "hyper"
    THEN Lx
    ELSE Descend(Nearest(Subnodes(Lx), sample), sample)

RECURSIVE DescentTrace(_, _)
\* Lines 299-323: the value of Lx before the loop and after each of its
\* iterations.
DescentTrace(Lx, sample) ==
    IF \E i \in DOMAIN Lx : nodes[Lx[i]].kind = "hyper"
    THEN <<Lx>>
    ELSE <<Lx>> \o DescentTrace(Nearest(Subnodes(Lx), sample), sample)

\* Lines 331-334.
LhHyperNodes(Lx, sample) ==
    LET Lh == SelectSeq(Lx, LAMBDA h : NormSq(nodes[h].data, sample) <= nodes[h].gamma_d)
    IN  IF Len(Lh) = 0 THEN Lx ELSE Lh

\* Lines 353-359: the rows of every child of every node of Lh.
BottomLevelRows(Lh) ==
    Flatten([i \in DOMAIN Lh |->
                Flatten([c \in DOMAIN nodes[Lh[i]].children |->
                            Blevel[nodes[Lh[i]].children[c]].rows])])

\* KNeighborsClassifier(n_neighbors=k).fit(rows).predict([sample])[0] with
\* uniform weights: the most frequent label of the k nearest rows, the
\* smallest such label when several are as frequent.  Equally distant rows
\* are taken in row order.
KnnVote(rows, k, sample) ==
    LET order == Take(ArgSort([i \in DOMAIN rows |-> SqDist(X[rows[i]], sample)]), k)
        votes(l) == Cardinality({i \in DOMAIN order : y[rows[order[i]]] = l})
    IN  Min({l \in Labels : \A m \in Labels : votes(l) >= votes(m)})

Label(l) == [kind |-> "label", v |-> l]

Raised == [kind |-> "error", v |-> <<>>]

\* Lines 339-370, from the hyper nodes of Lx on.
Classify(Lx, sample) ==
    LET Lh == LhHyperNodes(Lx, sample)
        Lh_hyper_node_labels == {nodes[Lh[i]].label : i \in DOMAIN Lh}
        rows == BottomLevelRows(Lh)
        k == IF Len(rows) < n_neighbors THEN Len(rows) ELSE n_neighbors
    IN  IF ~(Cardinality(Lh_hyper_node_labels) > 1)
        THEN Label(Min(Lh_hyper_node_labels))
        ELSE IF k = 0 \/ sample.rank # 1
        THEN Raised   \* sklearn rejects n_neighbors = 0 and a [sample] that is not 2-D
        ELSE Label(KnnVote(rows, k, sample.v))

\* Lines 277-370.
_predict(sample) == Classify(Descend(Nearest(Plevel, sample), sample), sample)

\* Iterating an ndarray yields its entries one rank lower.
Entries(a) == [i \in DOMAIN a.v |-> [rank |-> a.rank - 1, v |-> a.v[i]]]

\* Lines 270-273.
predict(sample) ==
    IF Len(sample.v) > 1
    THEN LET each == [i \in DOMAIN sample.v |-> _predict(Entries(sample)[i])]
         IN  IF \E i \in DOMAIN each : each[i].kind = "error"
             THEN Raised
             ELSE [kind |-> "array", v |-> [i \in DOMAIN each |-> each[i].v]]
    ELSE _predict(sample)

\* What a caller may pass: one sample as a row, or a matrix of 1..MaxBatch rows.
Batches == UNION {[1..n -> SamplePoints] : n \in 1..MaxBatch}

\* Lines 270-273: the descents of the _predict calls that predict makes.
Descents(sample) ==
    IF Len(sample.v) > 1
    THEN [i \in DOMAIN sample.v |->
            DescentTrace(Nearest(Plevel, Entries(sample)[i]), Entries(sample)[i])]
    ELSE <<DescentTrace(Nearest(Plevel, sample), sample)>>

PredictCall(sample) ==
    prediction' = [sample |-> sample, result |-> predict(sample),
                   descents |-> Descents(sample)]

\* One call of predict on the fitted index.  predict assigns no attribute, so
\* a later call would start from this same index: one call is modelled.
Predict ==
    /\ pc = "fitted"
    /\ prediction = NoPrediction
    /\ \/ \E p \in SamplePoints : PredictCall([rank |-> 1, v |-> p])
       \/ \E b \in Batches : PredictCall([rank |-> 2, v |-> b])
    /\ UNCHANGED <<inputs, remaining_clusters_labels, Blevel, nodes, Hlevel, Plevel,
                   gamma_d, most_dissimilars, iter, hyperlevel_threshold,
                   dbscan_calls, branches, pc>>

Next == Extract \/ Condense \/ Predict

\* fit, then one predict.
Spec == Init /\ [][Next]_vars

\* fit alone.
NextFit == Extract \/ Condense

SpecFit == Init /\ [][NextFit]_vars

\* fit alone on the inputs of InitWide.
SpecWide == InitWide /\ [][NextFit]_vars

\* fit, then one predict, on the inputs of InitWide.
SpecWidePredict == InitWide /\ [][Next]_vars


\* ------------------------------------------------------------------ claims
NumClusters == Cardinality(Range(clusters_masks))

Last(s) == s[Len(s)]

\* The rows held by the bottom clusters under the hyper level, with repeats.
LeafRows == BottomLevelRows(Hlevel)

Occurrences(s, v) == Cardinality({j \in DOMAIN s : s[j] = v})

ClusterLabels(c) == {y[r] : r \in {q \in DOMAIN y : clusters_masks[q] = c}}

SingleLabelledClusters == \A c \in Range(clusters_masks) : Cardinality(ClusterLabels(c)) = 1

\* C1: on every valid input fit runs to its return, no iteration guard fails
\* on the way, and the returned Plevel holds exactly one root node.
C1_FitReturnsOneRoot ==
    /\ pc # "assert_failed"
    /\ pc # "unbound_local"
    /\ pc = "fitted" => Len(Plevel) = 1

\* C2: after fit the bottom clusters under the hyper nodes partition the
\* input rows: every row is held exactly once.
C2_LeavesPartitionRows ==
    pc = "fitted" => \A r \in DOMAIN X : Occurrences(LeafRows, r) = 1

\* C3: every sample captured into the child bottom cluster of a hyper node
\* carries the hyper node's own label, whichever branch created the node.
C3_CapturedSamplesShareLabel ==
    \A h \in DOMAIN nodes :
        nodes[h].kind = "hyper" =>
            \A c \in Range(nodes[h].children) :
                \A r \in Range(Blevel[c].rows) : y[r] = nodes[h].label

\* C3 witness: fit has returned after taking both branches, and a hyper node
\* of the multi-class branch captured two or more samples.
C3_Witness ==
    /\ pc = "fitted"
    /\ branches = <<"multi", "single">>
    /\ Len(Blevel[nodes[Hlevel[1]].children[1]].rows) >= 2
    /\ Len(Blevel[nodes[Hlevel[2]].children[1]].rows) >= 1

\* C4: predict on a batch of N rows returns N labels, the i-th being the
\* label predict gives for row i alone, and predict on one sample passed on
\* its own returns one label.
C4_BatchEqualsSingles ==
    prediction.result.kind # "none" =>
        IF prediction.sample.rank = 2
        THEN /\ prediction.result.kind = "array"
             /\ Len(prediction.result.v) = Len(prediction.sample.v)
             /\ \A i \in DOMAIN prediction.sample.v :
                   /\ predict([rank |-> 1, v |-> prediction.sample.v[i]]).kind = "label"
                   /\ predict([rank |-> 1, v |-> prediction.sample.v[i]]).v
                        = prediction.result.v[i]
        ELSE prediction.result.kind = "label"

\* C5 as stated: when every input cluster is single-labelled, every
\* extraction iteration takes the single-class branch, and fit ends with one
\* hyper node per cluster under one upper-level root.
C5_SingleClassBranchEveryIteration ==
    SingleLabelledClusters =>
        /\ \A i \in DOMAIN branches : branches[i] = "single"
        /\ pc = "fitted" =>
              /\ Len(Hlevel) = NumClusters
              /\ Len(Plevel) = 1
              /\ NumClusters > 1 => nodes[Plevel[1]].kind = "upper"

\* C5 amended: when every input cluster is single-labelled and two or more
\* labels occur, the first extraction iteration takes the multi-class branch
\* and the last one the single-class branch; once extraction is over there is
\* one hyper node per cluster, and the returned root is one upper node.
C5_FirstMultiLastSingle ==
    (SingleLabelledClusters /\ Cardinality(Range(y)) > 1) =>
        /\ pc # "unbound_local"
        /\ branches # <<>> => branches[1] = "multi"
        /\ pc \in {"condense", "fitted"} =>
              /\ Last(branches) = "single"
              /\ Len(Hlevel) = NumClusters
        /\ pc = "fitted" =>
              /\ Len(Plevel) = 1
              /\ nodes[Plevel[1]].kind = "upper"

\* C5 witness: two single-labelled clusters with different labels, fitted.
C5_Witness ==
    /\ pc = "fitted"
    /\ SingleLabelledClusters
    /\ NumClusters = 2
    /\ Cardinality(Range(y)) = 2
    /\ branches = <<"multi", "single">>
    /\ Len(Hlevel) = 2

\* C6: one input cluster with mixed labels whose selected psi_d is smaller
\* than the cluster yields more than one hyper node.
C6_MixedClusterYieldsSeveralHyperNodes ==
    (/\ pc = "fitted"
     /\ NumClusters = 1
     /\ Cardinality(Range(y)) > 1
     /\ Len(Blevel[nodes[Hlevel[1]].children[1]].rows) < Len(X))
        => Len(Hlevel) > 1

\* C7: an extraction iteration that takes the single-class branch empties
\* the remaining set, so the loop is over after it.
C7_SingleClassBranchClearsRemaining ==
    (branches # <<>> /\ Last(branches) = "single" /\ pc # "unbound_local")
        => /\ remaining_clusters_labels = <<>>
           /\ pc # "extract"

\* The candidates the claim describes: for every remaining cluster, the row of
\* that cluster farthest from that cluster's centroid.
OwnCandidates(rem) ==
    [k \in DOMAIN rem |->
        LET lbls == SortedSeq(Range(clusters_masks))
            at == CHOOSE i \in DOMAIN lbls : lbls[i] = rem[k]
            rows == SelectSeq(Idx(Len(X)), LAMBDA r : clusters_masks[r] = rem[k])
        IN  X[rows[ArgMax([j \in DOMAIN rows |-> SqDist(X[rows[j]], centroids[at])])]]]

\* C8: in every extraction iteration the candidates are one per remaining
\* cluster, each the farthest row of that cluster from its own centroid.
C8_CandidatesOfRemainingClusters ==
    [][pc = "extract" => most_dissimilars' = OwnCandidates(remaining_clusters_labels)]_vars

\* C9: in every condensation iteration each node of the previous level is a
\* child of exactly one node of the new level.
C9_ChildrenPartitionPreviousLevel ==
    [][pc = "condense" =>
          \A i \in DOMAIN Plevel :
              Cardinality({j \in DOMAIN Plevel' :
                  Plevel[i] \in Range(nodes'[Plevel'[j]].children)}) = 1]_vars

\* C10: the DBSCAN of condensation iteration i is given the radius
\* initial_hyperlevel_threshold + 0.5 * i.
C10_RadiusGrowsEachIteration ==
    \A c \in DOMAIN dbscan_calls :
        dbscan_calls[c][2] = initial_hyperlevel_threshold + dbscan_calls[c][1]


\* C11: every hyper node created by the single-class branch carries an
\* undefined (infinite) gamma_d, never a number computed in an earlier
\* iteration, and the branch never makes fit fail, the first iteration
\* included.
C11_SingleClassGammaUndefined ==
    /\ pc # "unbound_local"
    /\ \A i \in DOMAIN Hlevel :
          branches[i] = "single" => nodes[Hlevel[i]].gamma_d \notin Nat

\* C12: in every descent of a prediction, Lx never holds a node twice, and
\* the Lx the descent stops with holds min(sigma, number of hyper nodes)
\* distinct hyper nodes.
C12_LxNodesDistinct ==
    \A d \in DOMAIN prediction.descents :
        LET trace == prediction.descents[d]
        IN  /\ \A s \in DOMAIN trace :
                  Cardinality(Range(trace[s])) = Len(trace[s])
            /\ Cardinality(Range(Last(trace)))
                 = (IF sigma_nearest_nodes < Len(Hlevel)
                    THEN sigma_nearest_nodes ELSE Len(Hlevel))
=============================================================================
